---- MODULE Spec2Model ----
(***************************************************************************)
(* Model of the Flight class of flight_manger.py (MAVez): the preflight    *)
(* gate, takeoff, airdrop-mission synthesis, the mission queue and the     *)
(* hand-off performed by wait_and_send_next_mission.                       *)
(*                                                                         *)
(* Every method of Flight is one action.  The result codes returned by the *)
(* Controller and Mission collaborators are inputs of the action.  Each    *)
(* action records the collaborator calls it made, in order, in `calls`,    *)
(* and what it returned in `ret`.                                          *)
(***************************************************************************)
EXTENDS Integers, Sequences, FiniteSets, TLC

(* ------------------------------ bounds --------------------------------- *)
\* number of items in every mission-definition file
FileLen == 1
\* no mission loaded from a file grows beyond this many items
MaxItems == 1
\* the airdrop mission does not grow beyond this many items
MaxAirdropItems == 8
\* longest mission queue explored
MaxQueue == 2
\* most Mission objects created by append_mission
MaxAdhoc == 1

(* --------------------------- program constants ------------------------- *)
PREFLIGHT_CHECK_ERROR == 301
DETECT_LOAD_ERROR == 302
\* Controller.TIMEOUT_ERROR
TIMEOUT_ERROR == 101
\* a method that ends without a return statement returns None
NoneRet == -1
\* a method that ended by raising an exception returns nothing
Raised == -2

\* result codes of the collaborators' calls: a Controller call succeeds or
\* times out, a Mission call succeeds or returns an opaque Mission-layer
\* fault, the wait for a waypoint succeeds, times out or returns such a fault
ControllerResults == {0, TIMEOUT_ERROR}
MissionResults == {0, 5}
WaitResults == {0, TIMEOUT_ERROR, 5}

\* codes handed to decode_error: one or more of every range
DecodeCodes == {0, 5, 100, 199, 200, 299, 300, PREFLIGHT_CHECK_ERROR,
                DETECT_LOAD_ERROR, 400}

(* ------------------------------ objects -------------------------------- *)
controller == <<"controller", 0>>
takeoff_mission == <<"takeoff", 0>>
detect_mission == <<"detect", 0>>
land_mission == <<"land", 0>>
airdrop_mission == <<"airdrop", 0>>
geofence == <<"geofence", 0>>
\* the Mission object created by the n-th successful append_mission
AdhocMission(n) == <<"adhoc", n>>
\* no object: the value of a local that was never assigned
NoMission == <<"none", 0>>

NamedMissions == {takeoff_mission, detect_mission, land_mission,
                  airdrop_mission, geofence}
AllMissions == NamedMissions \cup {AdhocMission(n) : n \in 1..MaxAdhoc}
\* the missions that can be in the queue: the ones whose items Flight reads
\* (get_length in append_detect_mission and in wait_and_send_next_mission);
\* the items of the land mission and of the geofence are read by nothing in
\* Flight and are not kept
QueueMissions == AllMissions \ {land_mission, geofence}

\* Mission(controller) has type 0 (NORMAL), Mission(controller, type=1) is a fence
MissionType(m) == IF m = geofence THEN 1 ELSE 0

Range(s) == {s[i] : i \in 1..Len(s)}

VARIABLES
    preflight_check_done,   \* Flight.preflight_check_done
    mission_list,           \* Flight.mission_list, a sequence of missions
    items,                  \* the items of every Mission that can be queued, in order
    adhoc_count,            \* Mission objects created by append_mission so far
    resident,               \* NORMAL missions uploaded to the controller, not cleared
    gate_passed,            \* history: some preflight_check ran all five steps with result 0
    op,                     \* the method called last
    ret,                    \* what it returned
    msg,                    \* the text it returned (decode_error)
    calls,                  \* the collaborator calls it made, in order
    current_mission,        \* local of wait_and_send_next_mission
    next_mission            \* local of wait_and_send_next_mission

vars == <<preflight_check_done, mission_list, items, adhoc_count, resident,
          gate_passed, op, ret, msg, calls, current_mission, next_mission>>

\* one collaborator call: the object, the method, its integer argument, its result
Call(o, f, a, r) == [obj |-> o, fn |-> f, arg |-> a, res |-> r]

(* ----------------------- Mission (collaborator) ------------------------ *)
Item(s, k) == [seq |-> s, kind |-> k]

\* items [start, end) of the file, renumbered from first_seq, appended to its
LoadedItems(its, start, end, first_seq) ==
    its \o [i \in 1..(end - start) |-> Item(first_seq + i - 1, "file")]

\* Mission.load_mission_from_file: on result 0 the items are loaded
load_mission_from_file(its, start, end, first_seq, r) ==
    IF r = 0 THEN LoadedItems(its, start, end, first_seq) ELSE its

\* Mission.add_mission_item: on result 0 the item is appended
add_mission_item(its, it, r) ==
    IF r = 0 THEN Append(its, it) ELSE its

\* Mission.get_length
get_length(its) == Len(its)

\* Mission.send_mission: on result 0 the mission is on the controller
send_mission(res, m, r) ==
    IF r = 0 /\ MissionType(m) = 0 THEN res \cup {m} ELSE res

\* Mission.clear_mission: on result 0 the mission is no more on the controller
clear_mission(res, m, r) ==
    IF r = 0 THEN res \ {m} ELSE res

(* ------------------------------ __init__ ------------------------------- *)
Init ==
    /\ preflight_check_done = FALSE
    /\ mission_list = <<takeoff_mission>>
    /\ items = [m \in QueueMissions |-> <<>>]
    /\ adhoc_count = 0
    /\ resident = {}
    /\ gate_passed = FALSE
    /\ op = "__init__"
    /\ ret = NoneRet
    /\ msg = ""
    /\ calls = <<>>
    /\ current_mission = NoMission
    /\ next_mission = NoMission

(* --------------------------- preflight_check --------------------------- *)
\* preflight_check that does not look at the response of enable_geofence
preflight_check_run_enable_unchecked(r1, r2, r3, r4, r5) ==
    LET c1 == Call(controller, "set_home", 0, r1)
        c2 == Call(geofence, "load_mission_from_file", 0, r2)
        c3 == Call(geofence, "send_mission", 0, r3)
        c4 == Call(land_mission, "load_mission_from_file", 0, r4)
        c5 == Call(controller, "enable_geofence", 0, r5)
    IN  IF r1 # 0 THEN [ret |-> r1, calls |-> <<c1>>, done |-> FALSE]
        ELSE IF r2 # 0 THEN [ret |-> r2, calls |-> <<c1, c2>>, done |-> FALSE]
        ELSE IF r3 # 0 THEN [ret |-> r3, calls |-> <<c1, c2, c3>>, done |-> FALSE]
        ELSE IF r4 # 0 THEN [ret |-> r4, calls |-> <<c1, c2, c3, c4>>, done |-> FALSE]
        ELSE [ret |-> 0, calls |-> <<c1, c2, c3, c4, c5>>, done |-> TRUE]

\* preflight_check that does not look at the response of the geofence load
preflight_check_run_load_unchecked(r1, r2, r3, r4, r5) ==
    LET c1 == Call(controller, "set_home", 0, r1)
        c2 == Call(geofence, "load_mission_from_file", 0, r2)
        c3 == Call(geofence, "send_mission", 0, r3)
        c4 == Call(land_mission, "load_mission_from_file", 0, r4)
        c5 == Call(controller, "enable_geofence", 0, r5)
    IN  IF r1 # 0 THEN [ret |-> r1, calls |-> <<c1>>, done |-> FALSE]
        ELSE IF r3 # 0 THEN [ret |-> r3, calls |-> <<c1, c2, c3>>, done |-> FALSE]
        ELSE IF r4 # 0 THEN [ret |-> r4, calls |-> <<c1, c2, c3, c4>>, done |-> FALSE]
        ELSE IF r5 # 0 THEN [ret |-> r5, calls |-> <<c1, c2, c3, c4, c5>>, done |-> FALSE]
        ELSE [ret |-> 0, calls |-> <<c1, c2, c3, c4, c5>>, done |-> TRUE]

\* the calls preflight_check makes and what it returns, for the results
\* r1..r5 of set_home, geofence load, geofence send, land load, enable_geofence
preflight_check_run(r1, r2, r3, r4, r5) ==
    LET c1 == Call(controller, "set_home", 0, r1)
        c2 == Call(geofence, "load_mission_from_file", 0, r2)
        c3 == Call(geofence, "send_mission", 0, r3)
        c4 == Call(land_mission, "load_mission_from_file", 0, r4)
        c5 == Call(controller, "enable_geofence", 0, r5)
    IN  IF r1 # 0 THEN [ret |-> r1, calls |-> <<c1>>, done |-> FALSE]
        ELSE IF r2 # 0 THEN [ret |-> r2, calls |-> <<c1, c2>>, done |-> FALSE]
        ELSE IF r3 # 0 THEN [ret |-> r3, calls |-> <<c1, c2, c3>>, done |-> FALSE]
        ELSE IF r4 # 0 THEN [ret |-> r4, calls |-> <<c1, c2, c3, c4>>, done |-> FALSE]
        ELSE IF r5 # 0 THEN [ret |-> r5, calls |-> <<c1, c2, c3, c4, c5>>, done |-> FALSE]
        ELSE [ret |-> 0, calls |-> <<c1, c2, c3, c4, c5>>, done |-> TRUE]

\* the calls of a sequence whose method is f on object o
CallsOf(cs, o, f) == {i \in 1..Len(cs) : cs[i].obj = o /\ cs[i].fn = f}
Made(cs, o, f) == CallsOf(cs, o, f) # {}
MadeOk(cs, o, f) == \E i \in CallsOf(cs, o, f) : cs[i].res = 0

\* all five steps of the gate were made and returned 0
AllFiveOk(cs) ==
    /\ MadeOk(cs, controller, "set_home")
    /\ MadeOk(cs, geofence, "load_mission_from_file")
    /\ MadeOk(cs, geofence, "send_mission")
    /\ MadeOk(cs, land_mission, "load_mission_from_file")
    /\ MadeOk(cs, controller, "enable_geofence")

\* the results of the calls that were not made are not inputs: the calls
\* after the n-th have the result 0 here
Unmade(rs, n) == \A i \in 1..Len(rs) : i > n => rs[i] = 0

\* the flag assigned on every path, with the outcome of the run
gate_after_assigned(done, run_done) == run_done

\* self.preflight_check_done = True is reached only on full success;
\* every other path leaves the flag as it was
gate_after(done, run_done) == IF run_done THEN TRUE ELSE done

preflight_check ==
    \E r1, r5 \in ControllerResults : \E r2, r3, r4 \in MissionResults :
        LET run == preflight_check_run(r1, r2, r3, r4, r5)
            nc == Len(run.calls)
        IN  /\ Unmade(<<r1, r2, r3, r4, r5>>, nc)
            /\ resident' = IF nc >= 3 THEN send_mission(resident, geofence, r3)
                           ELSE resident
            /\ preflight_check_done' = gate_after(preflight_check_done, run.done)
            /\ gate_passed' = (gate_passed \/ AllFiveOk(run.calls))
            /\ op' = "preflight_check"
            /\ ret' = run.ret
            /\ calls' = run.calls
            /\ msg' = ""
            /\ UNCHANGED <<mission_list, items, adhoc_count, current_mission,
                           next_mission>>

(* ------------------------------- takeoff ------------------------------- *)
\* the calls takeoff makes and what it returns, for the gate flag and the
\* results r1..r4 of takeoff load, takeoff send, set_mode('AUTO'), arm
\* takeoff without its check of the gate
takeoff_run_ungated(done, r1, r2, r3, r4) ==
    LET c1 == Call(takeoff_mission, "load_mission_from_file", 0, r1)
        c2 == Call(takeoff_mission, "send_mission", 0, r2)
        c3 == Call(controller, "set_mode", 0, r3)
        c4 == Call(controller, "arm", 0, r4)
    IN  IF r1 # 0 THEN [ret |-> r1, calls |-> <<c1>>]
        ELSE IF r2 # 0 THEN [ret |-> r2, calls |-> <<c1, c2>>]
        ELSE IF r3 # 0 THEN [ret |-> r3, calls |-> <<c1, c2, c3>>]
        ELSE IF r4 # 0 THEN [ret |-> r4, calls |-> <<c1, c2, c3, c4>>]
        ELSE [ret |-> 0, calls |-> <<c1, c2, c3, c4>>]

\* takeoff that arms before it sets the mode
takeoff_run_arm_first(done, r1, r2, r3, r4) ==
    LET c1 == Call(takeoff_mission, "load_mission_from_file", 0, r1)
        c2 == Call(takeoff_mission, "send_mission", 0, r2)
        c3 == Call(controller, "set_mode", 0, r3)
        c4 == Call(controller, "arm", 0, r4)
    IN  IF ~done THEN [ret |-> PREFLIGHT_CHECK_ERROR, calls |-> <<>>]
        ELSE IF r1 # 0 THEN [ret |-> r1, calls |-> <<c1>>]
        ELSE IF r2 # 0 THEN [ret |-> r2, calls |-> <<c1, c2>>]
        ELSE IF r4 # 0 THEN [ret |-> r4, calls |-> <<c1, c2, c4>>]
        ELSE IF r3 # 0 THEN [ret |-> r3, calls |-> <<c1, c2, c4, c3>>]
        ELSE [ret |-> 0, calls |-> <<c1, c2, c4, c3>>]

takeoff_run(done, r1, r2, r3, r4) ==
    LET c1 == Call(takeoff_mission, "load_mission_from_file", 0, r1)
        c2 == Call(takeoff_mission, "send_mission", 0, r2)
        c3 == Call(controller, "set_mode", 0, r3)
        c4 == Call(controller, "arm", 0, r4)
    IN  IF ~done THEN [ret |-> PREFLIGHT_CHECK_ERROR, calls |-> <<>>]
        ELSE IF r1 # 0 THEN [ret |-> r1, calls |-> <<c1>>]
        ELSE IF r2 # 0 THEN [ret |-> r2, calls |-> <<c1, c2>>]
        ELSE IF r3 # 0 THEN [ret |-> r3, calls |-> <<c1, c2, c3>>]
        ELSE IF r4 # 0 THEN [ret |-> r4, calls |-> <<c1, c2, c3, c4>>]
        ELSE [ret |-> 0, calls |-> <<c1, c2, c3, c4>>]

takeoff ==
    \E r1, r2 \in MissionResults : \E r3, r4 \in ControllerResults :
        LET run == takeoff_run(preflight_check_done, r1, r2, r3, r4)
            nc == Len(run.calls)
            tk == IF nc >= 1
                  THEN load_mission_from_file(items[takeoff_mission], 0, FileLen, 0, r1)
                  ELSE items[takeoff_mission]
        IN  /\ Unmade(<<r1, r2, r3, r4>>, nc)
            /\ Len(tk) <= MaxItems
            /\ items' = [items EXCEPT ![takeoff_mission] = tk]
            /\ resident' = IF nc >= 2 THEN send_mission(resident, takeoff_mission, r2)
                           ELSE resident
            /\ op' = "takeoff"
            /\ ret' = run.ret
            /\ calls' = run.calls
            /\ msg' = ""
            /\ UNCHANGED <<preflight_check_done, mission_list, adhoc_count,
                           gate_passed, current_mission, next_mission>>

(* ------------------------ build_airdrop_mission ------------------------ *)
\* the calls build_airdrop_mission makes, what it returns and the items of
\* the airdrop mission afterwards, for its items before, the target_index
\* and the results r1..r5 of prefix load, the three add_mission_item, rest load
build_airdrop_mission_run(its, target_index, r1, r2, r3, r4, r5) ==
    LET c1 == Call(airdrop_mission, "load_mission_from_file", target_index, r1)
        c2 == Call(airdrop_mission, "add_mission_item", target_index, r2)
        c3 == Call(airdrop_mission, "add_mission_item", target_index + 1, r3)
        c4 == Call(airdrop_mission, "add_mission_item", target_index + 2, r4)
        c5 == Call(airdrop_mission, "load_mission_from_file", target_index + 3, r5)
        i1 == load_mission_from_file(its, 0, target_index, 0, r1)
        i2 == add_mission_item(i1, Item(target_index, "entry"), r2)
        i3 == add_mission_item(i2, Item(target_index + 1, "target"), r3)
        i4 == add_mission_item(i3, Item(target_index + 2, "exit"), r4)
        i5 == load_mission_from_file(i4, target_index, FileLen, target_index + 3, r5)
    IN  IF r1 # 0 THEN [ret |-> r1, calls |-> <<c1>>, items |-> i1]
        ELSE IF r2 # 0 THEN [ret |-> r2, calls |-> <<c1, c2>>, items |-> i2]
        ELSE IF r3 # 0 THEN [ret |-> r3, calls |-> <<c1, c2, c3>>, items |-> i3]
        ELSE IF r4 # 0 THEN [ret |-> r4, calls |-> <<c1, c2, c3, c4>>, items |-> i4]
        ELSE IF r5 # 0 THEN [ret |-> r5, calls |-> <<c1, c2, c3, c4, c5>>, items |-> i5]
        ELSE [ret |-> 0, calls |-> <<c1, c2, c3, c4, c5>>, items |-> i5]

build_airdrop_mission ==
    \E target_index \in 0..FileLen : \E r1, r2, r3, r4, r5 \in MissionResults :
        LET run == build_airdrop_mission_run(items[airdrop_mission], target_index,
                                             r1, r2, r3, r4, r5)
        IN  /\ Unmade(<<r1, r2, r3, r4, r5>>, Len(run.calls))
            /\ Len(run.items) <= MaxAirdropItems
            /\ items' = [items EXCEPT ![airdrop_mission] = run.items]
            /\ op' = "build_airdrop_mission"
            /\ ret' = run.ret
            /\ calls' = run.calls
            /\ msg' = ""
            /\ UNCHANGED <<preflight_check_done, mission_list, adhoc_count, resident,
                           gate_passed, current_mission, next_mission>>

(* ------------------------------ append_* ------------------------------- *)
\* append_airdrop_mission that pushes the land mission
append_airdrop_mission_run_land(q) == Append(q, land_mission)

\* the queue after append_airdrop_mission
append_airdrop_mission_run(q) == Append(q, airdrop_mission)

append_airdrop_mission ==
    /\ Len(mission_list) < MaxQueue
    /\ mission_list' = append_airdrop_mission_run(mission_list)
    /\ op' = "append_airdrop_mission"
    /\ ret' = NoneRet
    /\ calls' = <<>>
    /\ msg' = ""
    /\ UNCHANGED <<preflight_check_done, items, adhoc_count, resident,
                   gate_passed, current_mission, next_mission>>

\* append_detect_mission that loads the file whenever one is given
append_detect_mission_run_reload(its, q, has_file, r) ==
    LET c1 == Call(detect_mission, "load_mission_from_file", 0, r)
    IN  IF has_file
        THEN [ret |-> NoneRet, calls |-> <<c1>>,
              items |-> load_mission_from_file(its, 0, FileLen, 0, r),
              queue |-> Append(q, detect_mission)]
        ELSE IF get_length(its) = 0
        THEN [ret |-> DETECT_LOAD_ERROR, calls |-> <<>>, items |-> its, queue |-> q]
        ELSE [ret |-> NoneRet, calls |-> <<>>, items |-> its,
              queue |-> Append(q, detect_mission)]

\* the calls append_detect_mission makes, what it returns, the items of the
\* detect mission and the queue afterwards, for the detect items and the queue
\* before, whether a file was given and the result r of the load
append_detect_mission_run(its, q, has_file, r) ==
    LET c1 == Call(detect_mission, "load_mission_from_file", 0, r)
    IN  IF get_length(its) = 0
        THEN IF has_file
             THEN [ret |-> NoneRet, calls |-> <<c1>>,
                   items |-> load_mission_from_file(its, 0, FileLen, 0, r),
                   queue |-> Append(q, detect_mission)]
             ELSE [ret |-> DETECT_LOAD_ERROR, calls |-> <<>>, items |-> its, queue |-> q]
        ELSE [ret |-> NoneRet, calls |-> <<>>, items |-> its,
              queue |-> Append(q, detect_mission)]

append_detect_mission ==
    \E has_file \in BOOLEAN : \E r \in MissionResults :
        LET run == append_detect_mission_run(items[detect_mission], mission_list,
                                             has_file, r)
        IN  /\ Unmade(<<r>>, Len(run.calls))
            /\ Len(run.queue) <= MaxQueue
            /\ mission_list' = run.queue
            /\ items' = [items EXCEPT ![detect_mission] = run.items]
            /\ op' = "append_detect_mission"
            /\ ret' = run.ret
            /\ calls' = run.calls
            /\ msg' = ""
            /\ UNCHANGED <<preflight_check_done, adhoc_count, resident,
                           gate_passed, current_mission, next_mission>>

\* append_mission without the return on a failed load
append_mission_run_push_on_failure(q, mission, r) ==
    LET c1 == Call(mission, "load_mission_from_file", 0, r)
    IN  [ret |-> IF r # 0 THEN r ELSE NoneRet, calls |-> <<c1>>,
         queue |-> Append(q, mission)]

\* the calls append_mission makes, what it returns and the queue afterwards,
\* for the queue before, the new Mission object and the result r of its load
append_mission_run(q, mission, r) ==
    LET c1 == Call(mission, "load_mission_from_file", 0, r)
    IN  IF r # 0 THEN [ret |-> r, calls |-> <<c1>>, queue |-> q]
        ELSE [ret |-> NoneRet, calls |-> <<c1>>, queue |-> Append(q, mission)]

append_mission ==
    \E r \in MissionResults :
        LET mission == AdhocMission(adhoc_count + 1)
            run == append_mission_run(mission_list, mission, r)
        IN  /\ adhoc_count < MaxAdhoc
            /\ Len(run.queue) <= MaxQueue
            /\ mission_list' = run.queue
            /\ adhoc_count' = IF r = 0 THEN adhoc_count + 1 ELSE adhoc_count
            /\ items' = [items EXCEPT ![mission] =
                            load_mission_from_file(<<>>, 0, FileLen, 0, r)]
            /\ op' = "append_mission"
            /\ ret' = run.ret
            /\ calls' = run.calls
            /\ msg' = ""
            /\ UNCHANGED <<preflight_check_done, resident, gate_passed,
                           current_mission, next_mission>>

(* --------------------- wait_and_send_next_mission ---------------------- *)
\* the selection made on the length the queue had before the pop
SelectNext_before_pop(q) == IF Len(q) <= 1 THEN land_mission ELSE q[1]

\* the mission selected as next once the head was popped
SelectNext(q) == IF Len(q) = 0 THEN land_mission ELSE q[1]

\* wait_and_send_next_mission that reads the head and leaves it in the queue
wait_and_send_next_mission_run_no_pop(q, its, res, rw, rc, rs, rm) ==
    LET cur == q[1]
        rest == q
        nxt == SelectNext(rest)
        target_index == get_length(its[cur]) - 1
        c1 == Call(cur, "wait_for_waypoint_reached", target_index, rw)
        c2 == Call(cur, "clear_mission", 0, rc)
        c3 == Call(nxt, "send_mission", 0, rs)
        c4 == Call(controller, "set_mode", 0, rm)
        res4 == send_mission(clear_mission(res, cur, rc), nxt, rs)
    IN  IF rw = TIMEOUT_ERROR
        THEN [ret |-> rw, calls |-> <<c1>>, queue |-> rest, resident |-> res,
              current |-> cur, next |-> nxt]
        ELSE IF rm # 0
        THEN [ret |-> rm, calls |-> <<c1, c2, c3, c4>>, queue |-> rest,
              resident |-> res4, current |-> cur, next |-> nxt]
        ELSE [ret |-> rs, calls |-> <<c1, c2, c3, c4>>, queue |-> rest,
              resident |-> res4, current |-> cur, next |-> nxt]


\* wait_and_send_next_mission that pops the tail of the queue: pop() for pop(0)
wait_and_send_next_mission_run_pop_last(q, its, res, rw, rc, rs, rm) ==
    LET cur == q[Len(q)]
        rest == SubSeq(q, 1, Len(q) - 1)
        nxt == SelectNext(rest)
        target_index == get_length(its[cur]) - 1
        c1 == Call(cur, "wait_for_waypoint_reached", target_index, rw)
        c2 == Call(cur, "clear_mission", 0, rc)
        c3 == Call(nxt, "send_mission", 0, rs)
        c4 == Call(controller, "set_mode", 0, rm)
        res4 == send_mission(clear_mission(res, cur, rc), nxt, rs)
    IN  IF rw = TIMEOUT_ERROR
        THEN [ret |-> rw, calls |-> <<c1>>, queue |-> rest, resident |-> res,
              current |-> cur, next |-> nxt]
        ELSE IF rm # 0
        THEN [ret |-> rm, calls |-> <<c1, c2, c3, c4>>, queue |-> rest,
              resident |-> res4, current |-> cur, next |-> nxt]
        ELSE [ret |-> rs, calls |-> <<c1, c2, c3, c4>>, queue |-> rest,
              resident |-> res4, current |-> cur, next |-> nxt]


\* wait_and_send_next_mission that uploads the current mission again
wait_and_send_next_mission_run_resend(q, its, res, rw, rc, rs, rm) ==
    LET cur == q[1]
        rest == Tail(q)
        nxt == SelectNext(rest)
        target_index == get_length(its[cur]) - 1
        c1 == Call(cur, "wait_for_waypoint_reached", target_index, rw)
        c2 == Call(cur, "clear_mission", 0, rc)
        c3 == Call(cur, "send_mission", 0, rs)
        c4 == Call(controller, "set_mode", 0, rm)
        res4 == send_mission(clear_mission(res, cur, rc), nxt, rs)
    IN  IF rw = TIMEOUT_ERROR
        THEN [ret |-> rw, calls |-> <<c1>>, queue |-> rest, resident |-> res,
              current |-> cur, next |-> nxt]
        ELSE IF rm # 0
        THEN [ret |-> rm, calls |-> <<c1, c2, c3, c4>>, queue |-> rest,
              resident |-> res4, current |-> cur, next |-> nxt]
        ELSE [ret |-> rs, calls |-> <<c1, c2, c3, c4>>, queue |-> rest,
              resident |-> res4, current |-> cur, next |-> nxt]


\* the locals, the calls, the return value, the queue and the controller's
\* missions after wait_and_send_next_mission, for a non-empty queue q, the
\* items its, the controller's missions res and the results rw, rc, rs, rm of
\* wait_for_waypoint_reached, clear_mission, send_mission, set_mode('AUTO')
wait_and_send_next_mission_run(q, its, res, rw, rc, rs, rm) ==
    LET cur == q[1]
        rest == Tail(q)
        nxt == SelectNext(rest)
        target_index == get_length(its[cur]) - 1
        c1 == Call(cur, "wait_for_waypoint_reached", target_index, rw)
        c2 == Call(cur, "clear_mission", 0, rc)
        c3 == Call(nxt, "send_mission", 0, rs)
        c4 == Call(controller, "set_mode", 0, rm)
        res4 == send_mission(clear_mission(res, cur, rc), nxt, rs)
    IN  IF rw = TIMEOUT_ERROR
        THEN [ret |-> rw, calls |-> <<c1>>, queue |-> rest, resident |-> res,
              current |-> cur, next |-> nxt]
        ELSE IF rm # 0
        THEN [ret |-> rm, calls |-> <<c1, c2, c3, c4>>, queue |-> rest,
              resident |-> res4, current |-> cur, next |-> nxt]
        ELSE [ret |-> rs, calls |-> <<c1, c2, c3, c4>>, queue |-> rest,
              resident |-> res4, current |-> cur, next |-> nxt]

wait_and_send_next_mission ==
    /\ Len(mission_list) > 0
    /\ \E rw \in WaitResults : \E rc, rs \in MissionResults : \E rm \in ControllerResults :
        LET run == wait_and_send_next_mission_run(mission_list, items, resident,
                                                  rw, rc, rs, rm)
        IN  /\ Unmade(<<rw, rc, rs, rm>>, Len(run.calls))
            /\ mission_list' = run.queue
            /\ resident' = run.resident
            /\ current_mission' = run.current
            /\ next_mission' = run.next
            /\ op' = "wait_and_send_next_mission"
            /\ ret' = run.ret
            /\ calls' = run.calls
            /\ msg' = ""
            /\ UNCHANGED <<preflight_check_done, items, adhoc_count, gate_passed>>

\* mission_list.pop(0) on an empty list raises IndexError before anything else
wait_and_send_next_mission_empty ==
    /\ Len(mission_list) = 0
    /\ op' = "wait_and_send_next_mission"
    /\ ret' = Raised
    /\ calls' = <<>>
    /\ msg' = ""
    /\ UNCHANGED <<preflight_check_done, mission_list, items, adhoc_count,
                   resident, gate_passed, current_mission, next_mission>>

(* ----------------------------- decode_error ---------------------------- *)
\* Controller.decode_error: the controller's text for one of its codes
Controller_decode_error(error_code) ==
    "CONTROLLER ERROR (" \o ToString(error_code) \o ")"

\* errors_dict.get(error_code, f"UNKNOWN ERROR ({error_code})")
errors_dict_get(error_code) ==
    IF error_code = 301 THEN "\nPREFLIGHT CHECK ERROR (301)\n"
    ELSE IF error_code = 302 THEN "\nDETECT LOAD ERROR (302)\n"
    ELSE "UNKNOWN ERROR (" \o ToString(error_code) \o ")"

\* what decode_error returns, its text and the call it makes; Flight has no
\* decode_flight_error attribute, so the call on it raises AttributeError and
\* nothing is returned
decode_error_run(error_code) ==
    IF error_code >= 100 /\ error_code < 200
    THEN [ret |-> 0, msg |-> Controller_decode_error(error_code),
          calls |-> <<Call(controller, "decode_error", error_code, 0)>>]
    ELSE IF error_code >= 200 /\ error_code < 300
    THEN [ret |-> Raised, msg |-> "", calls |-> <<>>]
    ELSE [ret |-> 0, msg |-> errors_dict_get(error_code), calls |-> <<>>]

decode_error ==
    \E error_code \in DecodeCodes :
        LET run == decode_error_run(error_code)
        IN  /\ op' = "decode_error"
            /\ ret' = run.ret
            /\ msg' = run.msg
            /\ calls' = run.calls
            /\ UNCHANGED <<preflight_check_done, mission_list, items, adhoc_count,
                           resident, gate_passed, current_mission, next_mission>>

Next ==
    \/ preflight_check
    \/ takeoff
    \/ build_airdrop_mission
    \/ append_airdrop_mission
    \/ append_detect_mission
    \/ append_mission
    \/ wait_and_send_next_mission
    \/ wait_and_send_next_mission_empty
    \/ decode_error

Spec == Init /\ [][Next]_vars

\* the sequencing operations: the gate, takeoff, the queue and the hand-off
NextFlight ==
    \/ preflight_check
    \/ takeoff
    \/ append_airdrop_mission
    \/ append_detect_mission
    \/ append_mission
    \/ wait_and_send_next_mission
    \/ wait_and_send_next_mission_empty

SpecFlight == Init /\ [][NextFlight]_vars

\* the gate and takeoff, with the queue operations on the missions of Flight
NextGate ==
    \/ preflight_check
    \/ takeoff
    \/ append_airdrop_mission
    \/ append_detect_mission
    \/ wait_and_send_next_mission
    \/ wait_and_send_next_mission_empty

SpecGate == Init /\ [][NextGate]_vars

\* the queue: every append and the hand-off
NextQueue ==
    \/ append_airdrop_mission
    \/ append_detect_mission
    \/ append_mission
    \/ wait_and_send_next_mission
    \/ wait_and_send_next_mission_empty

SpecQueue == Init /\ [][NextQueue]_vars

\* the synthesis of the airdrop mission, once per target, and its append
NextAirdrop ==
    \/ build_airdrop_mission
    \/ append_airdrop_mission

SpecAirdrop == Init /\ [][NextAirdrop]_vars

\* every collaborator call made so far in the operation answered 0
AllOk(cs) == \A i \in 1..Len(cs) : cs[i].res = 0

\* main hands decode_error the non-zero response of the operation before it
DecodesResponse ==
    /\ op # "decode_error"
    /\ ret \notin {0, NoneRet, Raised}
    /\ ret' = decode_error_run(ret).ret
    /\ msg' = decode_error_run(ret).msg
    /\ calls' = decode_error_run(ret).calls

\* every operation of Flight, as main drives them: the loads of the appends
\* may fail, the other collaborator calls answer 0, and decode_error is given
\* the response of the operation before it
NextFrame ==
    \/ preflight_check /\ AllOk(calls')
    \/ takeoff /\ AllOk(calls')
    \/ build_airdrop_mission /\ AllOk(calls')
    \/ append_airdrop_mission
    \/ append_detect_mission
    \/ append_mission
    \/ wait_and_send_next_mission /\ AllOk(calls')
    \/ wait_and_send_next_mission_empty
    \/ decode_error /\ DecodesResponse

SpecFrame == Init /\ [][NextFrame]_vars

\* decode_error, called in the states the gate and the appends lead to
NextDecode ==
    \/ decode_error
    \/ preflight_check
    \/ append_airdrop_mission
    \/ append_detect_mission

SpecDecode == Init /\ [][NextDecode]_vars

(* ======================== the gate and takeoff ========================= *)
\* C1: while preflight_check_done is false, takeoff returns
\* PREFLIGHT_CHECK_ERROR (301) and makes no call on the controller or on a
\* mission, whatever the rest of the state.
TakeoffGated ==
    (op = "takeoff" /\ ~preflight_check_done) =>
        (ret = PREFLIGHT_CHECK_ERROR /\ calls = <<>>)

TakeoffGatedWitness ==
    /\ op = "takeoff"
    /\ ~preflight_check_done
    /\ ret = PREFLIGHT_CHECK_ERROR
    /\ Len(mission_list) = 2

\* C2: whenever takeoff uploads the takeoff mission or arms, an earlier
\* preflight_check has made set_home, the geofence load, the geofence upload,
\* the land-mission load and enable_geofence, each with result 0.
ArmedOnlyAfterGate ==
    (/\ op = "takeoff"
     /\ \/ Made(calls, controller, "arm")
        \/ Made(calls, takeoff_mission, "send_mission"))
        => gate_passed

ArmedOnlyAfterGateWitness ==
    /\ op = "takeoff"
    /\ ret = 0
    /\ MadeOk(calls, controller, "arm")
    /\ gate_passed

\* C3: a preflight_check that fails leaves a false flag false; the flag
\* turns true only in a preflight_check that made all five steps with result 0
\* and returned 0; once true, no operation turns it false again.
GateAtomic ==
    [][ /\ (preflight_check_done => preflight_check_done')
        /\ (~preflight_check_done /\ op' = "preflight_check" /\ ret' # 0)
               => ~preflight_check_done'
        /\ (~preflight_check_done /\ preflight_check_done')
               => (op' = "preflight_check" /\ ret' = 0 /\ AllFiveOk(calls'))
      ]_vars

GateAtomicWitness ==
    /\ preflight_check_done
    /\ op = "preflight_check"
    /\ ret # 0

\* the five steps of preflight_check, in the order of the contract
PreflightOrder ==
    << <<controller, "set_home">>,
       <<geofence, "load_mission_from_file">>,
       <<geofence, "send_mission">>,
       <<land_mission, "load_mission_from_file">>,
       <<controller, "enable_geofence">> >>

\* the calls cs are the first steps of order, in order, all but the last with
\* result 0; a last call with a non-zero result is what was returned, and a
\* last call with result 0 is the last step of order, with 0 returned
FailFast(cs, order, r) ==
    /\ Len(cs) >= 1
    /\ Len(cs) <= Len(order)
    /\ \A i \in 1..Len(cs) :
        /\ cs[i].obj = order[i][1]
        /\ cs[i].fn = order[i][2]
        /\ (i < Len(cs) => cs[i].res = 0)
    /\ (cs[Len(cs)].res # 0 => r = cs[Len(cs)].res)
    /\ (cs[Len(cs)].res = 0 => (Len(cs) = Len(order) /\ r = 0))

\* C4: preflight_check makes set_home, geofence load, geofence upload,
\* land-mission load, enable_geofence in this order; the first step with a
\* non-zero result is the last one made and its code is what is returned.
PreflightFailFast ==
    op = "preflight_check" => FailFast(calls, PreflightOrder, ret)

PreflightFailFastWitness ==
    /\ op = "preflight_check"
    /\ Len(calls) = 3
    /\ calls[3].res # 0
    /\ ret = calls[3].res

\* the four steps of takeoff, in the order of the contract
TakeoffOrder ==
    << <<takeoff_mission, "load_mission_from_file">>,
       <<takeoff_mission, "send_mission">>,
       <<controller, "set_mode">>,
       <<controller, "arm">> >>

\* C5: with the gate true, takeoff loads the takeoff mission, uploads it,
\* sets the mode and arms, in this order; a step is made only when every step
\* before it returned 0, the first non-zero result is returned, and 0 is
\* returned only when all four steps returned 0.
TakeoffFailFast ==
    (op = "takeoff" /\ preflight_check_done) =>
        FailFast(calls, TakeoffOrder, ret)

TakeoffFailFastWitness ==
    /\ op = "takeoff"
    /\ preflight_check_done
    /\ Len(calls) = 3
    /\ calls[3].fn = "set_mode"
    /\ calls[3].res # 0
    /\ ret = calls[3].res

(* ============================= the queue =============================== *)
\* C6: on a non-empty queue wait_and_send_next_mission removes exactly the
\* head; when that was the last entry the land mission is selected as next,
\* otherwise the new head is, and it is still the head on return; the mission
\* uploaded is the one selected.
HeadPopped ==
    [][ (op' = "wait_and_send_next_mission" /\ ret' # Raised) =>
            /\ Len(mission_list) > 0
            /\ mission_list' = Tail(mission_list)
            /\ current_mission' = Head(mission_list)
            /\ (Len(mission_list) = 1 => next_mission' = land_mission)
            /\ (Len(mission_list) > 1 =>
                    /\ next_mission' = mission_list[2]
                    /\ Len(mission_list') > 0
                    /\ Head(mission_list') = next_mission')
            /\ \A i \in 1..Len(calls') :
                    calls'[i].fn = "send_mission" => calls'[i].obj = next_mission'
      ]_vars

HeadPoppedWitness ==
    /\ op = "wait_and_send_next_mission"
    /\ ret = 0
    /\ next_mission # land_mission
    /\ Len(mission_list) > 0
    /\ Head(mission_list) = next_mission
    /\ MadeOk(calls, next_mission, "send_mission")

\* C7: a wait that times out makes wait_and_send_next_mission return
\* TIMEOUT_ERROR with no clear, no upload and no mode change, and the call can
\* be made again: it does not fail, it waits on the mission that is still
\* uploaded and it uploads the mission that was selected as next.
TimeoutReinvocable ==
    /\ [](op = "wait_and_send_next_mission" /\ Len(calls) >= 1
              /\ calls[1].res = TIMEOUT_ERROR
            => (ret = TIMEOUT_ERROR /\ Len(calls) = 1))
    /\ [][ (/\ op = "wait_and_send_next_mission"
            /\ Len(calls) = 1
            /\ ret = TIMEOUT_ERROR
            /\ op' = "wait_and_send_next_mission") =>
                /\ ret' # Raised
                /\ Len(calls') >= 1
                /\ calls'[1].obj = current_mission
                /\ \A i \in 1..Len(calls') :
                        calls'[i].fn = "send_mission" => calls'[i].obj = next_mission
         ]_vars

\* C8: at most one NORMAL mission is uploaded and not cleared at any time.
OneMissionResident ==
    Cardinality({m \in resident : MissionType(m) = 0}) <= 1

\* C9: the land mission is never in the queue; it is selected as next only
\* when the pop left the queue empty.
LandNeverQueued ==
    /\ land_mission \notin Range(mission_list)
    /\ (op = "wait_and_send_next_mission" /\ ret # Raised
            /\ next_mission = land_mission)
         => mission_list = <<>>

LandNeverQueuedWitness ==
    /\ op = "wait_and_send_next_mission"
    /\ ret = 0
    /\ next_mission = land_mission
    /\ mission_list = <<>>
    /\ current_mission = airdrop_mission

(* =========================== error decoding ============================ *)
\* C10: decode_error returns a non-empty text for every code and changes
\* nothing of the Flight.
DecodeTotal ==
    /\ [](op = "decode_error" => (ret # Raised /\ msg # ""))
    /\ [][ op' = "decode_error" =>
              UNCHANGED <<preflight_check_done, mission_list, items,
                          adhoc_count, resident>> ]_vars

(* ========================= the detect mission ========================== *)
\* C11: once the detect mission has items, append_detect_mission makes no
\* load, whatever file it is given: the items of the detect mission are
\* unchanged and the detect mission is pushed to the tail of the queue.
DetectNotReloaded ==
    [][ (op' = "append_detect_mission" /\ Len(items[detect_mission]) > 0) =>
            /\ calls' = <<>>
            /\ items' = items
            /\ mission_list' = Append(mission_list, detect_mission)
            /\ ret' = NoneRet
      ]_vars

DetectNotReloadedWitness ==
    /\ op = "append_detect_mission"
    /\ calls = <<>>
    /\ Len(items[detect_mission]) = FileLen
    /\ mission_list = <<detect_mission, detect_mission>>

(* ============================ error reports ============================ *)
\* the operations that make calls on the controller or on a mission
FaultOps ==
    {"preflight_check", "takeoff", "build_airdrop_mission",
     "append_detect_mission", "append_mission", "wait_and_send_next_mission"}


\* C13: an operation in which a call on the controller or on a mission
\* returned a non-zero code returns a non-zero code: never 0, never None.
FaultsReported ==
    (op \in FaultOps /\ ~AllOk(calls)) => (ret # 0 /\ ret # NoneRet)

(* ============================= end to end ============================== *)
\* the states of the scenario: a fresh Flight, then after preflight_check,
\* takeoff, append_detect_mission with a file, the first and the second
\* wait_and_send_next_mission
Scenario0 == op = "__init__"

Scenario1 ==
    /\ op = "preflight_check"
    /\ ret = 0
    /\ preflight_check_done
    /\ mission_list = <<takeoff_mission>>
    /\ resident = {}
    /\ items[detect_mission] = <<>>

Scenario2 ==
    /\ op = "takeoff"
    /\ ret = 0
    /\ preflight_check_done
    /\ mission_list = <<takeoff_mission>>
    /\ resident = {takeoff_mission}
    /\ items[detect_mission] = <<>>

Scenario3 ==
    /\ op = "append_detect_mission"
    /\ MadeOk(calls, detect_mission, "load_mission_from_file")
    /\ mission_list = <<takeoff_mission, detect_mission>>
    /\ resident = {takeoff_mission}

Scenario4 ==
    /\ op = "wait_and_send_next_mission"
    /\ ret = 0
    /\ MadeOk(calls, detect_mission, "send_mission")
    /\ MadeOk(calls, controller, "set_mode")
    /\ mission_list = <<detect_mission>>
    /\ resident = {detect_mission}

Scenario5 ==
    /\ op = "wait_and_send_next_mission"
    /\ ret = 0
    /\ MadeOk(calls, land_mission, "send_mission")
    /\ MadeOk(calls, controller, "set_mode")
    /\ mission_list = <<>>

\* C14: with every call succeeding, a fresh Flight goes through
\* preflight_check returning 0, takeoff returning 0, append_detect_mission
\* pushing the detect mission, a wait_and_send_next_mission that uploads the
\* detect mission and sets the mode, and a second one that empties the queue,
\* uploads the land mission, sets the mode and returns 0.
EndToEnd ==
    [][ /\ (Scenario0 /\ op' = "preflight_check" /\ AllOk(calls')) => Scenario1'
        /\ (Scenario1 /\ op' = "takeoff" /\ AllOk(calls')) => Scenario2'
        /\ (Scenario2 /\ op' = "append_detect_mission" /\ Len(calls') = 1
                /\ AllOk(calls')) => Scenario3'
        /\ (Scenario3 /\ op' = "wait_and_send_next_mission" /\ AllOk(calls'))
                => Scenario4'
        /\ (Scenario4 /\ op' = "wait_and_send_next_mission" /\ AllOk(calls'))
                => Scenario5'
      ]_vars

EndToEndWitness ==
    /\ Scenario5
    /\ preflight_check_done
    /\ current_mission = detect_mission
    /\ resident = {land_mission}
    /\ Len(items[detect_mission]) = FileLen
    /\ Len(items[takeoff_mission]) = FileLen

(* ============================ the hand-off ============================= *)
\* C15: the head that wait_and_send_next_mission pops as current is the
\* mission uploaded on the controller.
HeadIsUploaded ==
    [][ (op' = "wait_and_send_next_mission" /\ ret' # Raised) =>
            Head(mission_list) \in resident ]_vars

\* C16: wait_and_send_next_mission waits on the final index of the current
\* mission, and makes no clear_mission and no send_mission when the wait
\* returned anything but success.
HandoffOnlyAfterReached ==
    (op = "wait_and_send_next_mission" /\ ret # Raised) =>
        /\ calls[1].fn = "wait_for_waypoint_reached"
        /\ calls[1].obj = current_mission
        /\ calls[1].arg = Len(items[current_mission]) - 1
        /\ calls[1].res # 0 =>
              \A i \in 1..Len(calls) :
                  calls[i].fn \notin {"clear_mission", "send_mission"}

\* C17: in every operation the first call with a non-zero result is the last
\* call made and its code is what is returned; an append in which a call
\* failed pushes nothing.
FailFastEverywhere ==
    /\ [](op \in FaultOps =>
            \A i \in 1..Len(calls) :
                calls[i].res # 0 => (i = Len(calls) /\ ret = calls[i].res))
    /\ [][ (op' \in {"append_detect_mission", "append_mission"} /\ ~AllOk(calls'))
              => mission_list' = mission_list ]_vars

\* C19: a wait_and_send_next_mission in which every call succeeds returns 0,
\* removes the head and uploads the entry behind it, or the land mission when
\* there is none: successive calls upload the queued missions in their order
\* and the land mission exactly in the call that empties the queue.
FifoToLand ==
    [][ (op' = "wait_and_send_next_mission" /\ ret' # Raised /\ AllOk(calls')) =>
            /\ ret' = 0
            /\ Len(calls') = 4
            /\ mission_list' = Tail(mission_list)
            /\ calls'[2].obj = mission_list[1]
            /\ calls'[3].fn = "send_mission"
            /\ calls'[3].obj = IF Len(mission_list) >= 2 THEN mission_list[2]
                               ELSE land_mission
            /\ (calls'[3].obj = land_mission <=> mission_list' = <<>>)
      ]_vars

FifoToLandWitness ==
    /\ op = "wait_and_send_next_mission"
    /\ ret = 0
    /\ AllOk(calls)
    /\ Len(calls) = 4
    /\ calls[3].obj = land_mission
    /\ current_mission = AdhocMission(1)
    /\ mission_list = <<>>
    /\ resident = {land_mission}

\* C20 as claimed: the mission cleared and the mission uploaded by one
\* wait_and_send_next_mission are never the same object.
NoSelfHandoff ==
    (op = "wait_and_send_next_mission" /\ Len(calls) = 4) =>
        calls[2].obj # calls[3].obj

\* C20: the mission cleared and the mission uploaded are the same object
\* exactly when the queue held that object in its first two places, as it does
\* after two appends of the airdrop mission or of the detect mission in a row.
SelfHandoffOnlyOnRepeat ==
    [][ (op' = "wait_and_send_next_mission" /\ Len(calls') = 4) =>
            /\ calls'[2].fn = "clear_mission"
            /\ calls'[3].fn = "send_mission"
            /\ (calls'[2].obj = calls'[3].obj <=>
                    (Len(mission_list) >= 2 /\ mission_list[1] = mission_list[2]))
      ]_vars

SelfHandoffOnlyOnRepeatWitness ==
    /\ op = "wait_and_send_next_mission"
    /\ Len(calls) = 4
    /\ calls[2].obj = detect_mission
    /\ calls[3].obj = airdrop_mission
    /\ mission_list = <<airdrop_mission>>

(* ========================= the airdrop mission ========================= *)
\* C12: after every build_airdrop_mission that returns 0, for the
\* target_index k it was given, the airdrop mission has k + 3 + (FileLen - k)
\* items, numbered 0, 1, 2, ... in order, with the entry, target and exit
\* items at the numbers k, k + 1, k + 2.
AirdropContiguous ==
    (op = "build_airdrop_mission" /\ ret = 0) =>
        LET its == items[airdrop_mission]
            k == calls[1].arg
        IN  /\ Len(its) = k + 3 + (FileLen - k)
            /\ \A i \in 1..Len(its) : its[i].seq = i - 1
            /\ its[k + 1].kind = "entry"
            /\ its[k + 2].kind = "target"
            /\ its[k + 3].kind = "exit"

====
